---- MODULE Spec2Model ----
(***************************************************************************)
(* VisualDataTool: the two Streamlit pages pages/1_AI_Based_Models.py and  *)
(* pages/2_AI_Models.py.  Streamlit runs a page's script from top to       *)
(* bottom on every user interaction; one run of main() is modelled as a    *)
(* sequence of steps (pc), each step one call made by main.  A widget      *)
(* returns the value the user has put into it, drawn here from the         *)
(* widget's option list.  A call into pandas, the DataProcessor, a model   *)
(* wrapper or Evaluation either returns or raises; an exception that main  *)
(* does not catch ends the run (exc).  Nothing but the widgets survives    *)
(* from one run to the next: every local of main is rebuilt.               *)
(***************************************************************************)
EXTENDS Integers, Sequences, FiniteSets, TLC

VARIABLES
    page,                \* which page's script is running: 1 or 2
    run,                 \* number of the current script run
    pc,                  \* the step of main that is executed next
    uploaded,            \* uploaded_file.name, or NoFile when nothing is uploaded
    data_processor,      \* life cycle of main's data_processor object
    problem_type,        \* "Classification" / "Regression" once selected
    X_columns,           \* columns chosen as input
    y_columns,           \* columns chosen as output
    X_empty,             \* data_processor.X.empty
    data_process_status, \* page 1: what check_data returned
    model_option,        \* what select_model returned
    model,               \* the model wrapper built by get_training_config
    clicked,             \* whether st.button("Train Model") returned True
    status,              \* training_success as returned by train_model
    calls,               \* the calls main has made in this run, with their outcome
    metrics,             \* what get_evaluation has computed in this run
    errors,              \* messages passed to st.error in this run
    exc,                 \* the exception that ended this run, or "none"
    shownBefore          \* an earlier run of page 2 ran get_evaluation

vars == <<page, run, pc, uploaded, data_processor, problem_type, X_columns,
          y_columns, X_empty, data_process_status, model_option, model,
          clicked, status, calls, metrics, errors, exc, shownBefore>>

\* Number of script runs (user interactions) of one session that are explored.
MaxRuns == 2

\* ------------------------------------------------------------------------
\* File names.  A name is a sequence of characters so that os.path.splitext
\* and the uploader's extension test are computed, not assumed.

NoFile == <<>>

DotCsv  == <<".", "c", "s", "v">>
DotXlsx == <<".", "x", "l", "s", "x">>
DotXls  == <<".", "x", "l", "s">>

\* The names a user may try to upload.
FileNames ==
    { <<"d", ".", "c", "s", "v">>,
      <<"d", ".", "x", "l", "s", "x">>,
      <<"d", ".", "x", "l", "s">>,
      <<"D", ".", "C", "S", "V">>,
      <<"d", ".", "X", "l", "s">>,
      <<"a", ".", "b", ".", "c", "s", "v">>,
      <<".", "c", "s", "v">>,
      <<"d", ".", "t", "x", "t">>,
      <<"d">> }

\* str.lower() on one character.
LowerChar(c) ==
    CASE c = "A" -> "a" [] c = "B" -> "b" [] c = "C" -> "c" [] c = "D" -> "d"
      [] c = "L" -> "l" [] c = "S" -> "s" [] c = "T" -> "t" [] c = "V" -> "v"
      [] c = "X" -> "x" [] OTHER -> c

Lower(s) == [i \in 1..Len(s) |-> LowerChar(s[i])]

\* Index of the last "." of a name, 0 when it has none (str.rfind).
LastDot(name) ==
    LET dots == {i \in 1..Len(name) : name[i] = "."}
    IN IF dots = {} THEN 0 ELSE CHOOSE i \in dots : \A j \in dots : j <= i

\* os.path.splitext(name)[1]: the text from the last dot on, unless only dots
\* precede that dot (a name such as ".csv" has no extension).
splitext(name) ==
    LET d == LastDot(name)
    IN IF d > 0 /\ \E i \in 1..(d - 1) : name[i] # "."
       THEN SubSeq(name, d, Len(name))
       ELSE <<>>

\* st.file_uploader(type=["csv", "xlsx", "xls"]): Streamlit compares the
\* extension of the chosen file with the listed types without regard to case.
UploaderTypes == {DotCsv, DotXlsx, DotXls}

UploaderAccepts(name) == Lower(splitext(name)) \in UploaderTypes

AcceptedNames == {n \in FileNames : UploaderAccepts(n)}

\* Which pandas reader choose_dataset of page 2 binds uploaded_file_df with;
\* "unbound" when neither branch of its if/elif is taken.
Parser(file_extension) ==
    IF file_extension = DotCsv THEN "read_csv"
    ELSE IF file_extension \in {DotXlsx, DotXls} THEN "read_excel"
    ELSE "unbound"

\* ------------------------------------------------------------------------
\* Widgets' option lists.

ProblemTypes == {"Classification", "Regression"}
ModelOptions == {"Neural Network", "Random Forest", "XGBoost"}
Columns      == {"a", "b"}
P1_DataStates == {"***Raw***", "***Processed***"}

\* A call returns ("ok"), raises ValueError, or raises something else.
Outcomes == {"ok", "ValueError", "Error"}
Uncaught == {"ok", "Error"}

NoModel == [wrapper |-> "None", classifier_or_regressor |-> "None",
            trained |-> FALSE, prediction |-> FALSE]

Log(c, o) == Append(calls, [call |-> c, outcome |-> o])
Called(c) == \E i \in 1..Len(calls) : calls[i].call = c
Returned(c) == \E i \in 1..Len(calls) : calls[i] = [call |-> c, outcome |-> "ok"]

Init ==
    /\ page \in {1, 2}
    /\ run = 1
    /\ pc = "choose_dataset"
    /\ uploaded = NoFile
    /\ data_processor = "None"
    /\ problem_type = "None"
    /\ X_columns = {}
    /\ y_columns = {}
    /\ X_empty = TRUE
    /\ data_process_status = "None"
    /\ model_option = "None"
    /\ model = NoModel
    /\ clicked = FALSE
    /\ status = FALSE
    /\ calls = <<>>
    /\ metrics = {}
    /\ errors = {}
    /\ exc = "none"
    /\ shownBefore = FALSE

\* ------------------------------------------------------------------------
\* pages/2_AI_Models.py

\* Python's truth test of what choose_dataset returned ("if data_processor:",
\* "if file_path:"): None is false, a DataProcessor or a Path is true.
Truthy_always(v) == TRUE

Truthy(v) == v # "None"

\* main, lines 417-422: choose_dataset (lines 42-54) inside try/except
\* ValueError, then "if data_processor:".
P2_choose_dataset ==
    /\ page = 2 /\ pc = "choose_dataset"
    /\ \E f \in {NoFile} \cup AcceptedNames, o \in Outcomes :
        /\ uploaded' = f
        /\ IF f = NoFile
           THEN /\ o = "ok"
                /\ calls' = Log("choose_dataset", "ok")
                /\ data_processor' = "None"
                /\ pc' = IF Truthy("None") THEN "plots" ELSE "done"
                /\ UNCHANGED <<errors, exc>>
           ELSE LET reader == Parser(splitext(f)) IN
                IF reader = "unbound"
                THEN /\ o = "ok"
                     /\ calls' = Log("DataProcessor", "UnboundLocalError")
                     /\ exc' = "UnboundLocalError"
                     /\ pc' = "done"
                     /\ UNCHANGED <<data_processor, errors>>
                ELSE /\ calls' = IF o = "ok"
                                 THEN Append(Append(Log(reader, "ok"),
                                     [call |-> "DataProcessor", outcome |-> "ok"]),
                                     [call |-> "choose_dataset", outcome |-> "ok"])
                                 ELSE Log(reader, o)
                     /\ data_processor' = IF o = "ok" THEN "loaded" ELSE "None"
                     /\ errors' = IF o = "ValueError"
                                  THEN errors \cup {"No file is selected!"}
                                  ELSE errors
                     /\ exc' = IF o = "Error" THEN "Error" ELSE "none"
                     /\ pc' = IF o = "ok" /\ Truthy("loaded") THEN "plots" ELSE "done"
    /\ UNCHANGED <<page, run, problem_type, X_columns, y_columns, X_empty,
                   data_process_status, model_option, model, clicked, status,
                   metrics, shownBefore>>

\* main, lines 423-424: get_heatmap reports a ValueError of df.corr() itself;
\* get_distribution plots the numeric columns.
P2_plots ==
    /\ page = 2 /\ pc = "plots"
    /\ \E o \in {"ok", "ValueError"} :
        /\ calls' = Append(Log("get_heatmap", o),
                           [call |-> "get_distribution", outcome |-> "ok"])
        /\ errors' = IF o = "ValueError"
                     THEN errors \cup {"Heatmap can not be plotted. Please check the data processing step!"}
                     ELSE errors
    /\ pc' = "select_problem_type"
    /\ UNCHANGED <<page, run, uploaded, data_processor, problem_type, X_columns,
                   y_columns, X_empty, data_process_status, model_option, model,
                   clicked, status, metrics, exc, shownBefore>>

\* select_problem_type, lines 57-74.
P2_select_problem_type ==
    /\ page = 2 /\ pc = "select_problem_type"
    /\ \E t \in ProblemTypes : problem_type' = t
    /\ pc' = "select_data"
    /\ UNCHANGED <<page, run, uploaded, data_processor, X_columns, y_columns,
                   X_empty, data_process_status, model_option, model, clicked,
                   status, calls, metrics, errors, exc, shownBefore>>

\* select_data, lines 77-93, and main's choice of the next step (line 430).
\* A frame without columns is empty; one with columns is empty when the
\* table has no rows.
P2_select_data ==
    /\ page = 2 /\ pc = "select_data"
    /\ \E X \in SUBSET Columns, y \in SUBSET Columns, o \in Uncaught,
          e \in BOOLEAN :
        /\ X_columns' = X
        /\ y_columns' = y
        /\ calls' = Log("select_X_y", o)
        /\ IF o = "ok"
           THEN /\ X_empty' = (X = {} \/ e)
                /\ data_processor' = "selected"
                /\ pc' = IF problem_type = "Classification"
                         THEN "resample_data" ELSE "check_empty"
                /\ exc' = exc
           ELSE /\ e = FALSE
                /\ UNCHANGED <<X_empty, data_processor>>
                /\ pc' = "done"
                /\ exc' = "Error"
    /\ UNCHANGED <<page, run, uploaded, problem_type, data_process_status,
                   model_option, model, clicked, status, metrics, errors,
                   shownBefore>>

\* main, lines 430-434: resample_data for Classification, a ValueError passed over.
P2_resample_data ==
    /\ page = 2 /\ pc = "resample_data"
    /\ \E o \in Outcomes :
        /\ calls' = Log("resample_data", o)
        /\ pc' = IF o = "Error" THEN "done" ELSE "check_empty"
        /\ exc' = IF o = "Error" THEN "Error" ELSE exc
    /\ UNCHANGED <<page, run, uploaded, data_processor, problem_type, X_columns,
                   y_columns, X_empty, data_process_status, model_option, model,
                   clicked, status, metrics, errors, shownBefore>>

\* main, lines 435-437.
P2_check_empty ==
    /\ page = 2 /\ pc = "check_empty"
    /\ IF X_empty
       THEN /\ errors' = errors \cup {"Input and output not selected"}
            /\ pc' = "done"
       ELSE /\ errors' = errors
            /\ pc' = "split_data"
    /\ UNCHANGED <<page, run, uploaded, data_processor, problem_type, X_columns,
                   y_columns, X_empty, data_process_status, model_option, model,
                   clicked, status, calls, metrics, exc, shownBefore>>

\* Two slips split_data could make with splitData's ValueError: go on with
\* the unsplit data processor, or let the exception through.
P2_split_data_lenient ==
    /\ page = 2 /\ pc = "split_data"
    /\ \E o \in Outcomes :
        /\ calls' = Log("splitData", o)
        /\ data_processor' = IF o = "ok" THEN "split" ELSE data_processor
        /\ errors' = IF o = "ValueError"
                     THEN errors \cup {"Input and output not selected"}
                     ELSE errors
        /\ exc' = IF o = "Error" THEN "Error" ELSE exc
        /\ pc' = IF o = "Error" THEN "done" ELSE "scaleData"
    /\ UNCHANGED <<page, run, uploaded, problem_type, X_columns, y_columns,
                   X_empty, data_process_status, model_option, model, clicked,
                   status, metrics, shownBefore>>

P2_split_data_propagating ==
    /\ page = 2 /\ pc = "split_data"
    /\ \E o \in Outcomes :
        /\ calls' = Log("splitData", o)
        /\ data_processor' = IF o = "ok" THEN "split" ELSE data_processor
        /\ exc' = IF o = "ok" THEN exc ELSE o
        /\ pc' = IF o = "ok" THEN "scaleData" ELSE "done"
    /\ UNCHANGED <<page, run, uploaded, problem_type, X_columns, y_columns,
                   X_empty, data_process_status, model_option, model, clicked,
                   status, metrics, errors, shownBefore>>

\* split_data, lines 96-117, and "if data_processor_split:" of main (438-439).
\* The slider's test size is forwarded to splitData, whose outcome it decides.
P2_split_data ==
    /\ page = 2 /\ pc = "split_data"
    /\ \E o \in Outcomes :
        /\ calls' = Log("splitData", o)
        /\ data_processor' = IF o = "ok" THEN "split" ELSE data_processor
        /\ errors' = IF o = "ValueError"
                     THEN errors \cup {"Input and output not selected"}
                     ELSE errors
        /\ exc' = IF o = "Error" THEN "Error" ELSE exc
        /\ pc' = IF o = "ok" THEN "scaleData" ELSE "done"
    /\ UNCHANGED <<page, run, uploaded, problem_type, X_columns, y_columns,
                   X_empty, data_process_status, model_option, model, clicked,
                   status, metrics, shownBefore>>

\* main, line 440.
P2_scaleData ==
    /\ page = 2 /\ pc = "scaleData"
    /\ \E o \in Uncaught :
        /\ calls' = Log("scaleData", o)
        /\ data_processor' = IF o = "ok" THEN "scaled" ELSE data_processor
        /\ exc' = IF o = "ok" THEN exc ELSE "Error"
        /\ pc' = IF o = "ok" THEN "select_model" ELSE "done"
    /\ UNCHANGED <<page, run, uploaded, problem_type, X_columns, y_columns,
                   X_empty, data_process_status, model_option, model, clicked,
                   status, metrics, errors, shownBefore>>

\* select_model, lines 143-154.
P2_select_model ==
    /\ page = 2 /\ pc = "select_model"
    /\ \E m \in ModelOptions : model_option' = m
    /\ pc' = "get_training_config"
    /\ UNCHANGED <<page, run, uploaded, data_processor, problem_type, X_columns,
                   y_columns, X_empty, data_process_status, model, clicked,
                   status, calls, metrics, errors, exc, shownBefore>>

\* The estimator classes, lines 29-39.
class_mapping_nn(t) ==
    IF t = "Classification" THEN "MLPClassifier" ELSE "MLPRegressor"

class_mapping_rf_swapped(t) ==
    IF t = "Classification" THEN "RandomForestRegressor" ELSE "RandomForestClassifier"

class_mapping_rf(t) ==
    IF t = "Classification" THEN "RandomForestClassifier" ELSE "RandomForestRegressor"

class_mapping_xgb(t) ==
    IF t = "Classification" THEN "XGBClassifier" ELSE "XGBRegressor"

\* get_training_config, lines 157-281: the wrapper of the chosen family around
\* the estimator class of the problem type; None when no branch is taken.
get_training_config(option, selected_classifier_or_regressor) ==
    IF option = "Neural Network"
    THEN [wrapper |-> "NeuralNetworkModel",
          classifier_or_regressor |-> class_mapping_nn(selected_classifier_or_regressor),
          trained |-> FALSE, prediction |-> FALSE]
    ELSE IF option = "Random Forest"
    THEN [wrapper |-> "RandomForestModel",
          classifier_or_regressor |-> class_mapping_rf(selected_classifier_or_regressor),
          trained |-> FALSE, prediction |-> FALSE]
    ELSE IF option = "XGBoost"
    THEN [wrapper |-> "XGBoostModel",
          classifier_or_regressor |-> class_mapping_xgb(selected_classifier_or_regressor),
          trained |-> FALSE, prediction |-> FALSE]
    ELSE NoModel

\* main, line 442.
P2_get_training_config ==
    /\ page = 2 /\ pc = "get_training_config"
    /\ model' = get_training_config(model_option, problem_type)
    /\ calls' = Log("get_training_config", "ok")
    /\ pc' = "train_model"
    /\ UNCHANGED <<page, run, uploaded, data_processor, problem_type, X_columns,
                   y_columns, X_empty, data_process_status, model_option,
                   clicked, status, metrics, errors, exc, shownBefore>>

\* train_model (page 2 lines 284-302, page 1 lines 175-181) and the caller's
\* "if status:".  training_success starts as `initial`; the button decides
\* whether model.train is called, and a raising train leaves train_model
\* without a return.
TrainModel(p, initial) ==
    /\ page = p /\ pc = "train_model"
    /\ \E c \in BOOLEAN, o \in Uncaught :
        /\ clicked' = c
        /\ IF c
           THEN IF o = "ok"
                THEN /\ calls' = Append(Log("model.train", "ok"),
                                        [call |-> "train_model", outcome |-> "ok"])
                     /\ model' = [model EXCEPT !.trained = TRUE]
                     /\ status' = TRUE
                     /\ exc' = exc
                     /\ pc' = "get_prediction"
                ELSE /\ calls' = Append(Log("model.train", "Error"),
                                        [call |-> "train_model", outcome |-> "Error"])
                     /\ exc' = "Error"
                     /\ pc' = "done"
                     /\ UNCHANGED <<model, status>>
           ELSE /\ o = "ok"
                /\ calls' = Log("train_model", "ok")
                /\ status' = initial
                /\ pc' = IF initial THEN "get_prediction" ELSE "done"
                /\ UNCHANGED <<model, exc>>
    /\ UNCHANGED <<page, run, uploaded, data_processor, problem_type, X_columns,
                   y_columns, X_empty, data_process_status, model_option,
                   metrics, errors, shownBefore>>

P2_train_model_cached == TrainModel(2, shownBefore)

\* main, lines 443-444.
P2_train_model == TrainModel(2, FALSE)

\* get_prediction (page 2 lines 305-316, page 1 lines 185-186).
GetPrediction(p) ==
    /\ page = p /\ pc = "get_prediction"
    /\ \E o \in Uncaught :
        /\ calls' = Log("model.predict", o)
        /\ model' = IF o = "ok" THEN [model EXCEPT !.prediction = TRUE] ELSE model
        /\ exc' = IF o = "ok" THEN exc ELSE "Error"
        /\ pc' = IF o = "ok" THEN "get_evaluation" ELSE "done"
    /\ UNCHANGED <<page, run, uploaded, data_processor, problem_type, X_columns,
                   y_columns, X_empty, data_process_status, model_option,
                   clicked, status, metrics, errors, shownBefore>>

\* main, line 445.
P2_get_prediction == GetPrediction(2)

EvaluationMetrics_inverted(t) ==
    IF t = "Classification"
    THEN <<"mae", "r2", "rmse", "scatter_plot">>
    ELSE <<"accuracy", "precision", "recall", "confusion_matrix">>

\* get_evaluation of page 2, lines 347-385: what it computes, in order.
EvaluationMetrics(t) ==
    IF t = "Classification"
    THEN <<"accuracy", "precision", "recall", "confusion_matrix">>
    ELSE <<"mae", "r2", "rmse", "scatter_plot">>

\* get_evaluation of page 1, lines 190-200: the same four whatever the model.
P1_EvaluationMetrics == <<"accuracy", "rmse", "precision", "confusion_matrix">>

\* A run of get_evaluation over the list `ms`: all of it, or, when a
\* computation raises, what came before.
GetEvaluation(p, ms) ==
    /\ page = p /\ pc = "get_evaluation"
    /\ \E o \in Uncaught, k \in 0..(Len(ms) - 1) :
        /\ o = "ok" => k = 0
        /\ calls' = Log("get_evaluation", o)
        /\ metrics' = IF o = "ok"
                      THEN {ms[i] : i \in 1..Len(ms)}
                      ELSE {ms[i] : i \in 1..k}
        /\ exc' = IF o = "ok" THEN exc ELSE "Error"
    /\ pc' = "done"
    /\ UNCHANGED <<page, run, uploaded, data_processor, problem_type, X_columns,
                   y_columns, X_empty, data_process_status, model_option, model,
                   clicked, status, errors, shownBefore>>

\* main, line 446.
P2_get_evaluation == GetEvaluation(2, EvaluationMetrics(problem_type))

\* ------------------------------------------------------------------------
\* pages/1_AI_Based_Models.py

\* main, lines 204-208: choose_dataset (lines 12-20) returns the path of the
\* uploaded file under the dataset directory, or None; then "if file_path:".
P1_choose_dataset ==
    /\ page = 1 /\ pc = "choose_dataset"
    /\ \E f \in {NoFile} \cup AcceptedNames :
        /\ uploaded' = f
        /\ pc' = IF Truthy(IF f = NoFile THEN "None" ELSE "Path")
                 THEN "select_data" ELSE "done"
    /\ calls' = Log("choose_dataset", "ok")
    /\ UNCHANGED <<page, run, data_processor, problem_type, X_columns, y_columns,
                   X_empty, data_process_status, model_option, model, clicked,
                   status, metrics, errors, exc, shownBefore>>

\* select_data, lines 24-31: DataProcessor(file_path), then select_X_y.
P1_select_data ==
    /\ page = 1 /\ pc = "select_data"
    /\ \E X \in SUBSET Columns, y \in SUBSET Columns, o \in Uncaught,
          e \in BOOLEAN :
        /\ X_columns' = X
        /\ y_columns' = y
        /\ IF o = "ok"
           THEN /\ calls' = Append(Log("DataProcessor", "ok"),
                                   [call |-> "select_X_y", outcome |-> "ok"])
                /\ X_empty' = (X = {} \/ e)
                /\ data_processor' = "selected"
                /\ pc' = "split_data"
                /\ exc' = exc
           ELSE /\ e = FALSE
                /\ calls' = Log("DataProcessor", "Error")
                /\ UNCHANGED <<X_empty, data_processor>>
                /\ pc' = "done"
                /\ exc' = "Error"
    /\ UNCHANGED <<page, run, uploaded, problem_type, data_process_status,
                   model_option, model, clicked, status, metrics, errors,
                   shownBefore>>

\* split_data, lines 35-39: no handler, whatever splitData raises leaves main.
P1_split_data ==
    /\ page = 1 /\ pc = "split_data"
    /\ \E o \in Outcomes :
        /\ calls' = Log("splitData", o)
        /\ data_processor' = IF o = "ok" THEN "split" ELSE data_processor
        /\ exc' = IF o = "ok" THEN exc ELSE o
        /\ pc' = IF o = "ok" THEN "check_data" ELSE "done"
    /\ UNCHANGED <<page, run, uploaded, problem_type, X_columns, y_columns,
                   X_empty, data_process_status, model_option, model, clicked,
                   status, metrics, errors, shownBefore>>

\* main, lines 211-213: check_data (lines 47-52) returns the radio's chosen
\* label, which main compares with "Raw" before calling scale_data (56-57).
P1_check_data ==
    /\ page = 1 /\ pc = "check_data"
    /\ \E d \in P1_DataStates, o \in Uncaught :
        /\ data_process_status' = d
        /\ IF d = "Raw"
           THEN /\ calls' = Append(Log("check_data", "ok"),
                                   [call |-> "scaleData", outcome |-> o])
                /\ data_processor' = IF o = "ok" THEN "scaled" ELSE data_processor
                /\ exc' = IF o = "ok" THEN exc ELSE "Error"
                /\ pc' = IF o = "ok" THEN "select_model" ELSE "done"
           ELSE /\ o = "ok"
                /\ calls' = Log("check_data", "ok")
                /\ pc' = "select_model"
                /\ UNCHANGED <<data_processor, exc>>
    /\ UNCHANGED <<page, run, uploaded, problem_type, X_columns, y_columns,
                   X_empty, model_option, model, clicked, status, metrics,
                   errors, shownBefore>>

\* select_model, lines 61-65.
P1_select_model ==
    /\ page = 1 /\ pc = "select_model"
    /\ \E m \in ModelOptions : model_option' = m
    /\ pc' = "get_training_config"
    /\ UNCHANGED <<page, run, uploaded, data_processor, problem_type, X_columns,
                   y_columns, X_empty, data_process_status, model, clicked,
                   status, calls, metrics, errors, exc, shownBefore>>

\* get_training_config, lines 69-171: the nature of the data is asked inside
\* the function; the three mappings are those of page 2.
P1_get_training_config ==
    /\ page = 1 /\ pc = "get_training_config"
    /\ \E t \in ProblemTypes :
        /\ problem_type' = t
        /\ model' = get_training_config(model_option, t)
    /\ calls' = Log("get_training_config", "ok")
    /\ pc' = "train_model"
    /\ UNCHANGED <<page, run, uploaded, data_processor, X_columns, y_columns,
                   X_empty, data_process_status, model_option, clicked, status,
                   metrics, errors, exc, shownBefore>>

P1_train_model_default_true == TrainModel(1, TRUE)

\* main, lines 218-220.
P1_train_model == TrainModel(1, FALSE)

\* main, line 221.
P1_get_prediction == GetPrediction(1)

\* main, line 222.
P1_get_evaluation == GetEvaluation(1, P1_EvaluationMetrics)

\* ------------------------------------------------------------------------
\* The next interaction: Streamlit runs the script of the page shown again,
\* from the top, with fresh locals.
Rerun ==
    /\ pc = "done"
    /\ run < MaxRuns
    /\ run' = run + 1
    /\ page' \in {1, 2}
    /\ pc' = "choose_dataset"
    /\ shownBefore' = (shownBefore \/ (page = 2 /\ Called("get_evaluation")))
    /\ uploaded' = NoFile
    /\ data_processor' = "None"
    /\ problem_type' = "None"
    /\ X_columns' = {}
    /\ y_columns' = {}
    /\ X_empty' = TRUE
    /\ data_process_status' = "None"
    /\ model_option' = "None"
    /\ model' = NoModel
    /\ clicked' = FALSE
    /\ status' = FALSE
    /\ calls' = <<>>
    /\ metrics' = {}
    /\ errors' = {}
    /\ exc' = "none"

Next ==
    \/ P2_choose_dataset
    \/ P2_plots
    \/ P2_select_problem_type
    \/ P2_select_data
    \/ P2_resample_data
    \/ P2_check_empty
    \/ P2_split_data
    \/ P2_scaleData
    \/ P2_select_model
    \/ P2_get_training_config
    \/ P2_train_model
    \/ P2_get_prediction
    \/ P2_get_evaluation
    \/ P1_choose_dataset
    \/ P1_select_data
    \/ P1_split_data
    \/ P1_check_data
    \/ P1_select_model
    \/ P1_get_training_config
    \/ P1_train_model
    \/ P1_get_prediction
    \/ P1_get_evaluation
    \/ Rerun

Spec == Init /\ [][Next]_vars

\* ------------------------------------------------------------------------
\* Properties

\* Every call of `b` in this run comes after a call of `a` that returned.
Precedes(a, b) ==
    \A i \in 1..Len(calls) :
        calls[i].call = b =>
            \E j \in 1..(i - 1) : calls[j] = [call |-> a, outcome |-> "ok"]

AtMostOnce(c) == Cardinality({i \in 1..Len(calls) : calls[i].call = c}) <= 1

Raised(c, e) == \E i \in 1..Len(calls) : calls[i] = [call |-> c, outcome |-> e]

\* C1: in a run of main of page 2 no pipeline step runs before its
\* predecessor: get_evaluation only after model.predict, model.predict only
\* after a model.train that returned, model.train only after
\* get_training_config and scaleData, scaleData only after a splitData that
\* returned, splitData only after select_X_y on a loaded dataset; and no step
\* runs twice.
C1_PipelineOrder ==
    page = 2 =>
        /\ Precedes("model.predict", "get_evaluation")
        /\ Precedes("model.train", "model.predict")
        /\ Precedes("get_training_config", "model.train")
        /\ Precedes("scaleData", "get_training_config")
        /\ Precedes("splitData", "scaleData")
        /\ Precedes("select_X_y", "splitData")
        /\ Precedes("DataProcessor", "select_X_y")
        /\ \A c \in {"DataProcessor", "select_X_y", "splitData", "scaleData",
                     "get_training_config", "model.train", "model.predict",
                     "get_evaluation"} : AtMostOnce(c)

C1_Witness == page = 2 /\ Returned("get_evaluation")

\* C2: get_evaluation of page 2 computes the metrics of the problem type and
\* no other: for Classification accuracy, precision, recall and the confusion
\* matrix, for Regression MAE, R-squared, RMSE and the scatter plot; all four
\* once it has returned.
C2_MetricsMatchProblemType ==
    page = 2 =>
        LET expected ==
                IF problem_type = "Classification"
                THEN {"accuracy", "precision", "recall", "confusion_matrix"}
                ELSE {"mae", "r2", "rmse", "scatter_plot"}
        IN /\ metrics \subseteq expected
           /\ Returned("get_evaluation") => metrics = expected

C2_Witness ==
    page = 2 /\ Returned("get_evaluation") /\ problem_type = "Regression"

\* C3: get_training_config of page 2 returns the wrapper of the selected
\* family around the estimator class of that family and that problem type.
C3_ConfigMatchesSelection ==
    (page = 2 /\ Called("get_training_config")) =>
        LET cls == problem_type = "Classification" IN
        /\ model_option = "Neural Network" =>
              /\ model.wrapper = "NeuralNetworkModel"
              /\ model.classifier_or_regressor =
                     IF cls THEN "MLPClassifier" ELSE "MLPRegressor"
        /\ model_option = "Random Forest" =>
              /\ model.wrapper = "RandomForestModel"
              /\ model.classifier_or_regressor =
                     IF cls THEN "RandomForestClassifier" ELSE "RandomForestRegressor"
        /\ model_option = "XGBoost" =>
              /\ model.wrapper = "XGBoostModel"
              /\ model.classifier_or_regressor =
                     IF cls THEN "XGBClassifier" ELSE "XGBRegressor"

C3_Witness ==
    /\ page = 2 /\ Called("get_training_config")
    /\ model_option = "Random Forest" /\ problem_type = "Regression"

\* C4: once train_model has been called, training_success is True exactly
\* when the button was clicked and model.train returned; without a click
\* model.train is not called and the model stays untrained.
C4_TrainingSuccess ==
    Called("train_model") =>
        /\ status <=> (clicked /\ Returned("model.train"))
        /\ ~clicked => (~Called("model.train") /\ ~model.trained /\ ~status)
        /\ model.trained <=> Returned("model.train")

C4_Witness == page = 1 /\ Called("train_model") /\ clicked /\ status

\* C5: on page 1, once check_data has answered, scaleData has been called if
\* and only if the user chose the Raw option.
C5_ScaledIffRaw ==
    (page = 1 /\ Called("check_data")) =>
        ((data_process_status = "***Raw***") <=> Called("scaleData"))

\* C6: on both pages a run without an uploaded file ends after
\* choose_dataset returned None: no further step, no error, no exception.
C6_NoFileNoPipeline ==
    (uploaded = NoFile /\ Called("choose_dataset")) =>
        /\ pc = "done"
        /\ calls = <<[call |-> "choose_dataset", outcome |-> "ok"]>>
        /\ data_processor = "None"
        /\ model = NoModel
        /\ metrics = {}
        /\ errors = {}
        /\ exc = "none"

C6_Witness == page = 1 /\ uploaded = NoFile /\ pc = "done" /\ run = 2

\* C7: for every file the uploader accepts, choose_dataset of page 2 parses
\* it (read_csv for .csv, read_excel for .xlsx and .xls) and never reaches the
\* DataProcessor construction without a parsed dataframe.
C7_AcceptedFileIsParsed ==
    (page = 2 /\ uploaded # NoFile) =>
        /\ ~Raised("DataProcessor", "UnboundLocalError")
        /\ Called("DataProcessor") =>
              (Returned("read_csv") \/ Returned("read_excel"))
        /\ Called("read_csv") => Lower(splitext(uploaded)) = DotCsv
        /\ Called("read_excel") => Lower(splitext(uploaded)) \in {DotXlsx, DotXls}

\* C8: split_data of page 2 never lets a ValueError of splitData through: it
\* reports 'Input and output not selected' and main ends the run with no
\* further call; when splitData returns, the data processor is handed on.
C8_SplitValueErrorHandled ==
    page = 2 =>
        /\ exc # "ValueError"
        /\ Raised("splitData", "ValueError") =>
              /\ "Input and output not selected" \in errors
              /\ pc = "done"
              /\ exc = "none"
              /\ calls[Len(calls)].call = "splitData"
              /\ data_processor = "selected"
        /\ Returned("splitData") => data_processor \in {"split", "scaled"}

C8_Witness == page = 2 /\ Raised("splitData", "ValueError")

\* C9 as stated: a finished run of page 2 has run get_evaluation if and only
\* if model.train returned in that run, and without a click neither
\* model.predict nor get_evaluation ran.
C9_EvaluationIffTrained ==
    (page = 2 /\ pc = "done") =>
        /\ Called("get_evaluation") <=> Returned("model.train")
        /\ ~clicked => (~Called("model.predict") /\ ~Called("get_evaluation"))

\* C9 amended: every run of page 2 trains a fresh model; without a click
\* neither model.predict nor get_evaluation runs, whatever earlier runs
\* showed; and a finished run has run get_evaluation if and only if
\* model.train and then model.predict returned in that same run.
C9_EvaluationIffTrainedAndPredicted ==
    page = 2 =>
        /\ pc = "train_model" => (~model.trained /\ ~model.prediction)
        /\ ~clicked => (~Called("model.predict") /\ ~Called("get_evaluation"))
        /\ pc = "done" =>
              (Called("get_evaluation") <=>
                  (Returned("model.train") /\ Returned("model.predict")))

C9_Witness ==
    /\ shownBefore /\ page = 2 /\ pc = "done"
    /\ Called("train_model") /\ ~clicked /\ ~Called("get_evaluation")
====
